---- MODULE Spec2Model ----
(***************************************************************************)
(* A model of the cross-venue arbitrage bot of src/arbitrage.py: the      *)
(* driver loop of main(), one cycle of trade_and_hedge(), the per-symbol   *)
(* price-history and trade-history files, the in-memory ledger             *)
(* (usd_balance, balances) and the balances file.                          *)
(*                                                                         *)
(* Python floats are modelled as exact rationals <<numerator, denominator>>*)
(* in lowest terms with a positive denominator.  Quoted prices are         *)
(* integers.  A value that may be None is a sequence of length at most     *)
(* one: <<>> is None and <<v>> is the value v.                             *)
(***************************************************************************)
EXTENDS Integers, Sequences, FiniteSets, TLC

\* ------------------------------------------------------------------------
\* Bounds of the model
\* ------------------------------------------------------------------------

\* Number of iterations of the `while True` loop of main() that are explored.
MaxCycles == 2

\* Number of times a venue's quote for a tracked symbol changes during a run.
MaxMoves == 1

\* The longest price history calculate_atr is applied to on its own.
MaxHistory == 5

\* ------------------------------------------------------------------------
\* Program constants
\* ------------------------------------------------------------------------

MIN_TRADE_AMOUNT == 5

TRADE_SIZE_FACTOR == 500000

TAKER_FEE == <<1, 1000>>

\* The literal period of calculate_atr(crypto, 14).
ATR_PERIOD == 14

\* range(15) of initialize_price_history.
INIT_SAMPLES == 15

\* usd_balance = {"mexc": 2000.0, "coinbase": 2000.0}
DEFAULT_USD == 2000

Exchanges == {"mexc", "coinbase"}

\* cryptos = ["XTZUSDT", "BONKUSDT", "DOTUSDT"]
cryptos == <<"XTZUSDT", "BONKUSDT", "DOTUSDT">>

\* The currencies read_balances_from_file creates when there is no file.
DefaultCurrencies == {"XTZ", "BTC", "LTC", "BONK", "DOT", "ADA"}

\* crypto.replace("USDT", "")
crypto_name(symbol) ==
    CASE symbol = "XTZUSDT" -> "XTZ"
      [] symbol = "BONKUSDT" -> "BONK"
      [] symbol = "DOTUSDT" -> "DOT"
      [] symbol = "BTCUSDT" -> "BTC"
      [] symbol = "LTCUSDT" -> "LTC"
      [] symbol = "ADAUSDT" -> "ADA"

\* f"{crypto}USDT"; the Coinbase form f"{crypto}-USD" is mapped back to the
\* same history file by fetch_crypto_price_coinbase.
Symbol(name) ==
    CASE name = "XTZ" -> "XTZUSDT"
      [] name = "BONK" -> "BONKUSDT"
      [] name = "DOT" -> "DOTUSDT"
      [] name = "BTC" -> "BTCUSDT"
      [] name = "LTC" -> "LTCUSDT"
      [] name = "ADA" -> "ADAUSDT"

Symbols == {Symbol(n) : n \in DefaultCurrencies}

Tracked == {cryptos[i] : i \in 1..Len(cryptos)}

None == <<>>

Some(v) == <<v>>

\* ------------------------------------------------------------------------
\* Float arithmetic, as exact rationals
\* ------------------------------------------------------------------------

Abs(x) == IF x < 0 THEN -x ELSE x

RECURSIVE GCD(_, _)
GCD(a, b) == IF b = 0 THEN a ELSE GCD(b, a % b)

\* n / d in lowest terms, for d > 0
Norm(n, d) == LET g == GCD(Abs(n), d) IN <<n \div g, d \div g>>

R(i) == <<i, 1>>

Zero == R(0)

RAdd(x, y) ==
    LET g == GCD(x[2], y[2])
        l == (x[2] \div g) * y[2]
    IN Norm(x[1] * (l \div x[2]) + y[1] * (l \div y[2]), l)

RNeg(x) == <<-x[1], x[2]>>

RSub(x, y) == RAdd(x, RNeg(y))

RMul(x, y) ==
    LET g1 == GCD(Abs(x[1]), y[2])
        g2 == GCD(Abs(y[1]), x[2])
    IN Norm((x[1] \div g1) * (y[1] \div g2), (x[2] \div g2) * (y[2] \div g1))

\* x / y for y # 0
RDiv(x, y) ==
    IF y[1] > 0 THEN RMul(x, <<y[2], y[1]>>) ELSE RMul(x, <<-y[2], -y[1]>>)

RLt(x, y) ==
    LET g == GCD(x[2], y[2])
        l == (x[2] \div g) * y[2]
    IN x[1] * (l \div x[2]) < y[1] * (l \div y[2])

RGe(x, y) == ~RLt(x, y)

\* Python's max(a, b): the first argument unless the second is greater
RMax(a, b) == IF RLt(a, b) THEN b ELSE a

\* ------------------------------------------------------------------------
\* State
\* ------------------------------------------------------------------------

VARIABLES
    usd_balance,      \* usd_balance[exchange]: the USD cash of each venue
    balances,         \* balances[exchange]: a dict currency -> amount held
    price_history,    \* price_history[symbol]: the lines of <symbol>_price_history.txt
    trade_history,    \* trade_history[symbol]: the lines of <symbol>_trade_history.txt
    balances_file,    \* balances.txt: None, or Some(set of (exchange, currency, amount))
    feed,             \* feed[exchange][symbol]: what the venue answers now (None: an error)
    prices_mexc,      \* the dict built at line 190
    prices_coinbase,  \* the dict built at line 191
    pc,               \* where main() is
    idx,              \* position of the `for crypto in cryptos` loop of trade_and_hedge
    cycle,            \* iterations of the `while True` loop started so far
    moves,            \* quote changes so far
    hedges,           \* hedges[symbol]: iterations that reached the two legs, so far
    mexc_history,     \* mexc_history[symbol]: the lines of the file that MEXC fetches wrote
    init,             \* where the initialisation of main() is: the crypto (i), the
                      \* exchange of the call, the requests the call has made (k)
    last              \* what the loop body did for the crypto it evaluated last

vars == <<init, usd_balance, balances, price_history, trade_history, balances_file,
          feed, prices_mexc, prices_coinbase, pc, idx, cycle, moves, hedges,
          mexc_history, last>>

\* ------------------------------------------------------------------------
\* Price feed and price history
\* ------------------------------------------------------------------------

\* The prices a venue quotes in the model.
Prices == {1, 2}

Quotes == {None} \cup {Some(p) : p \in Prices}

\* open(file_path, 'a'); file.write(...)
save_price_history(hist, symbol, price) ==
    [hist EXCEPT ![symbol] = Append(@, price)]

\* The history after one fetch_crypto_price_mexc / _coinbase call whose
\* request answered `quote`: a price is appended, an error appends nothing.
\* Both venues append to the file of the same symbol: the Coinbase fetch
\* maps "XTZ-USD" back to "XTZUSDT" before it saves.
FetchInto(hist, symbol, quote) ==
    IF quote = None THEN hist ELSE save_price_history(hist, symbol, quote[1])

fetch_crypto_price_mexc(hist, symbol) ==
    FetchInto(hist, symbol, feed["mexc"][symbol])

fetch_crypto_price_coinbase(hist, symbol) ==
    FetchInto(hist, symbol, feed["coinbase"][symbol])

\* os.path.exists(file_path): a history file exists once a line was appended
HistoryExists(hist, symbol) == hist[symbol] # <<>>

\* ------------------------------------------------------------------------
\* calculate_atr
\* ------------------------------------------------------------------------

\* prices['tr'] of row i: max(price - price, |price - prev_close|, |price - prev_close|);
\* row 1 has no prev_close (NaN) and Python's max keeps its first argument, 0.
TrueRange(h, i) == IF i = 1 THEN 0 ELSE Abs(h[i] - h[i - 1])

RECURSIVE SumTrueRange(_, _, _)
SumTrueRange(h, from, to) ==
    IF from > to THEN 0 ELSE TrueRange(h, from) + SumTrueRange(h, from + 1, to)

\* A variant that averages the true ranges of the whole file.
calculate_atr_whole_file(hist, symbol, period) ==
    LET h == hist[symbol]
    IN IF ~HistoryExists(hist, symbol) THEN None
       ELSE IF Len(h) < period + 1 THEN None
       ELSE Some(Norm(SumTrueRange(h, 1, Len(h)), period))

\* None stands for the FileNotFoundError / ValueError the function raises.
calculate_atr(hist, symbol, period) ==
    LET h == hist[symbol]
    IN IF ~HistoryExists(hist, symbol) THEN None
       ELSE IF Len(h) < period + 1 THEN None
       ELSE Some(Norm(SumTrueRange(h, Len(h) - period + 1, Len(h)), period))

\* try: atr = calculate_atr(crypto, 14) except (ValueError, FileNotFoundError): atr = 0
AtrOrZero(hist, symbol) ==
    LET a == calculate_atr(hist, symbol, ATR_PERIOD)
    IN IF a = None THEN Zero ELSE a[1]

\* ------------------------------------------------------------------------
\* trade_and_hedge: sizing and the two legs
\* ------------------------------------------------------------------------

\* A variant without the floor MIN_TRADE_AMOUNT / TRADE_SIZE_FACTOR.
trade_size_factor_unfloored(atr, price_mexc) == RDiv(atr, R(price_mexc))

trade_size_factor(atr, price_mexc) ==
    RMax(RDiv(R(MIN_TRADE_AMOUNT), R(TRADE_SIZE_FACTOR)), RDiv(atr, R(price_mexc)))

trade_amount_usd(atr, price_mexc) ==
    RMul(R(TRADE_SIZE_FACTOR), trade_size_factor(atr, price_mexc))

\* A variant that buys for the amount net of the fee.
crypto_amount_net_of_fee(amount_usd, price) ==
    RDiv(RSub(amount_usd, RMul(amount_usd, TAKER_FEE)), R(price))

crypto_amount(amount_usd, price) == RDiv(amount_usd, R(price))

fee(amount_usd) == RMul(amount_usd, TAKER_FEE)

\* A variant that adds the fee to the amount spent.
net_trade_amount_plus_fee(amount_usd) == RAdd(amount_usd, fee(amount_usd))

net_trade_amount_usd(amount_usd) == RSub(amount_usd, fee(amount_usd))

\* balances[exchange].get(currency, 0.0)
Get(dict, key) == IF key \in DOMAIN dict THEN dict[key] ELSE Zero

\* dict[key] = value
Put(dict, key, value) ==
    [k \in DOMAIN dict \cup {key} |-> IF k = key THEN value ELSE dict[k]]

TradeLine(amount, price, trade_type, exchange) ==
    [trade_type |-> trade_type, amount |-> amount, price |-> price,
     notional |-> RMul(amount, R(price)), exchange |-> exchange]

\* A variant that records the size of a leg without its sign.
record_trade_unsigned(th, symbol, amount, price, trade_type, exchange) ==
    [th EXCEPT ![symbol] =
        Append(@, TradeLine(<<Abs(amount[1]), amount[2]>>, price, trade_type, exchange))]

record_trade_history(th, symbol, amount, price, trade_type, exchange) ==
    [th EXCEPT ![symbol] = Append(@, TradeLine(amount, price, trade_type, exchange))]

\* if prices_mexc[crypto] and prices_coinbase[crypto]: None and 0 are falsy
Truthy(quote) == quote # None /\ quote[1] # 0

\* A variant that only asks for some cash on the venue.
HasFundsPositive(usd, exchange, amount_usd) == RLt(Zero, usd[exchange])

\* A variant that accepts the cash of either venue.
HasFundsEitherVenue(usd, exchange, amount_usd) ==
    \E e \in Exchanges : RGe(usd[e], amount_usd)

\* A variant that asks for strictly more cash than the trade amount.
HasFundsStrict(usd, exchange, amount_usd) == RLt(amount_usd, usd[exchange])

\* usd_balance[exchange] >= trade_amount_usd
HasFunds(usd, exchange, amount_usd) == RGe(usd[exchange], amount_usd)

\* A variant that buys on MEXC when MEXC is the dearer venue.
BuyOnMexcWhenDearer(price_mexc, price_coinbase) == price_mexc > price_coinbase

\* prices_mexc[crypto] < prices_coinbase[crypto]
BuyOnMexc(price_mexc, price_coinbase) == price_mexc < price_coinbase

\* A variant whose sell leg also takes the crypto out of the selling venue.
HedgeAdjustingCounter(usd, bal, th, crypto, buy_ex, sell_ex, buy_price, sell_price, amount_usd) ==
    LET name == crypto_name(crypto)
        amount == crypto_amount(amount_usd, buy_price)
        bal1 == [bal EXCEPT ![buy_ex] = Put(@, name, RAdd(Get(@, name), amount))]
        usd1 == [usd EXCEPT ![buy_ex] = RSub(@, net_trade_amount_usd(amount_usd))]
        th1 == record_trade_history(th, crypto, amount, buy_price, "buy", buy_ex)
        bal2 == [bal1 EXCEPT ![sell_ex] = Put(@, name, RSub(Get(@, name), amount))]
        usd2 == [usd1 EXCEPT ![sell_ex] = RAdd(@, RMul(amount, R(sell_price)))]
        th2 == record_trade_history(th1, crypto, RNeg(amount), sell_price, "sell", sell_ex)
    IN [usd |-> usd2, bal |-> bal2, th |-> th2, result |-> "EXECUTED"]

\* Lines 213-223 (buy on MEXC, sell on Coinbase) and 227-237 (buy on
\* Coinbase, sell on MEXC): the same statements with the venues swapped.
Hedge(usd, bal, th, crypto, buy_ex, sell_ex, buy_price, sell_price, amount_usd) ==
    LET name == crypto_name(crypto)
        amount == crypto_amount(amount_usd, buy_price)
        bal1 == [bal EXCEPT ![buy_ex] = Put(@, name, RAdd(Get(@, name), amount))]
        usd1 == [usd EXCEPT ![buy_ex] = RSub(@, net_trade_amount_usd(amount_usd))]
        th1 == record_trade_history(th, crypto, amount, buy_price, "buy", buy_ex)
        usd2 == [usd1 EXCEPT ![sell_ex] = RAdd(@, RMul(amount, R(sell_price)))]
        th2 == record_trade_history(th1, crypto, RNeg(amount), sell_price, "sell", sell_ex)
    IN [usd |-> usd2, bal |-> bal1, th |-> th2, result |-> "EXECUTED"]

Untouched(usd, bal, th, why) == [usd |-> usd, bal |-> bal, th |-> th, result |-> why]

\* A variant that tests the funds against the USD lines of balances.txt (the
\* ledger as the previous cycle left it) and applies the legs to the ledger
\* in memory.
TradeOneOnSavedCash(usd, bal, th, crypto, quote_mexc, quote_coinbase, amount_usd) ==
    LET saved == [e \in Exchanges |->
                     (CHOOSE l \in balances_file[1] : l[1] = e /\ l[2] = "USD")[3]]
    IN IF ~(Truthy(quote_mexc) /\ Truthy(quote_coinbase))
       THEN Untouched(usd, bal, th, "UNAVAILABLE")
       ELSE IF BuyOnMexc(quote_mexc[1], quote_coinbase[1])
            THEN IF HasFunds(saved, "mexc", amount_usd)
                 THEN Hedge(usd, bal, th, crypto, "mexc", "coinbase",
                            quote_mexc[1], quote_coinbase[1], amount_usd)
                 ELSE Untouched(usd, bal, th, "SHORTFALL")
       ELSE IF HasFunds(saved, "coinbase", amount_usd)
            THEN Hedge(usd, bal, th, crypto, "coinbase", "mexc",
                       quote_coinbase[1], quote_mexc[1], amount_usd)
            ELSE Untouched(usd, bal, th, "SHORTFALL")

\* Lines 206-237 of one loop iteration, for a MEXC price that is a number.
TradeOne(usd, bal, th, crypto, quote_mexc, quote_coinbase, amount_usd) ==
    IF RLt(amount_usd, R(MIN_TRADE_AMOUNT)) THEN Untouched(usd, bal, th, "BELOW_MIN")
    ELSE IF ~(Truthy(quote_mexc) /\ Truthy(quote_coinbase))
         THEN Untouched(usd, bal, th, "UNAVAILABLE")
    ELSE IF BuyOnMexc(quote_mexc[1], quote_coinbase[1])
         THEN IF HasFunds(usd, "mexc", amount_usd)
              THEN Hedge(usd, bal, th, crypto, "mexc", "coinbase",
                         quote_mexc[1], quote_coinbase[1], amount_usd)
              ELSE Untouched(usd, bal, th, "SHORTFALL")
    ELSE IF HasFunds(usd, "coinbase", amount_usd)
         THEN Hedge(usd, bal, th, crypto, "coinbase", "mexc",
                    quote_coinbase[1], quote_mexc[1], amount_usd)
         ELSE Untouched(usd, bal, th, "SHORTFALL")

\* ------------------------------------------------------------------------
\* balances.txt
\* ------------------------------------------------------------------------

\* The lines write_balances_to_file writes: "exchange,USD,amount" and
\* "exchange,currency,amount" for every key of balances[exchange].
BalanceLines(usd, bal) ==
    {<<e, "USD", usd[e]>> : e \in Exchanges}
        \cup UNION {{<<e, c, bal[e][c]>> : c \in DOMAIN bal[e]} : e \in Exchanges}

\* A variant that writes the USD lines only.
write_cash_only(usd, bal) == Some({<<e, "USD", usd[e]>> : e \in Exchanges})

write_balances_to_file(usd, bal) == Some(BalanceLines(usd, bal))

\* The amount of the line of `lines` for (exchange, currency)
LineAmount(lines, e, c) == (CHOOSE l \in lines : l[1] = e /\ l[2] = c)[3]

HasLine(lines, e, c) == \E l \in lines : l[1] = e /\ l[2] = c

\* read_balances_from_file: [usd, bal, file] for a balances.txt that is
\* `file` (None: it does not exist, the defaults are used and written).
read_balances_from_file(file) ==
    IF file = None
    THEN LET usd == [e \in Exchanges |-> R(DEFAULT_USD)]
             bal == [e \in Exchanges |-> [c \in DefaultCurrencies |-> Zero]]
         IN [usd |-> usd, bal |-> bal, file |-> Some(BalanceLines(usd, bal))]
    ELSE LET lines == file[1]
             usd == [e \in Exchanges |->
                        IF HasLine(lines, e, "USD") THEN LineAmount(lines, e, "USD")
                        ELSE R(DEFAULT_USD)]
             bal == [e \in Exchanges |->
                        [c \in {l[2] : l \in {k \in lines : k[1] = e /\ k[2] # "USD"}} |->
                            LineAmount(lines, e, c)]]
         IN [usd |-> usd, bal |-> bal, file |-> file]

\* ------------------------------------------------------------------------
\* What is on disk when the program starts
\* ------------------------------------------------------------------------

\* balances.txt at start: absent, a small ledger, a large ledger.
StartFiles ==
    { None,
      Some({<<"mexc", "USD", R(5)>>, <<"coinbase", "USD", R(5)>>}),
      Some({<<"mexc", "USD", R(40000)>>, <<"coinbase", "USD", R(40000)>>,
            <<"mexc", "XTZ", R(3)>>}) }

\* The price-history files at start: none, or a one-line file per tracked symbol.
StartHistories ==
    { [s \in Symbols |-> <<>>],
      [s \in Symbols |-> IF s \in Tracked THEN <<1>> ELSE <<>>] }

\* main() is about to call initialize_price_history(cryptos[1], "mexc").
InitStart == [i |-> 1, exchange |-> "mexc", k |-> 0]

\* The loop of lines 249-254 is over.
InitDone == [i |-> Len(cryptos) + 1, exchange |-> "mexc", k |-> 0]

\* Where main() is once the call at `pos` has returned: line 252 after line
\* 251, the next crypto after line 252.
InitReturned(pos) ==
    IF pos.exchange = "mexc"
    THEN [i |-> pos.i, exchange |-> "coinbase", k |-> 0]
    ELSE [i |-> pos.i + 1, exchange |-> "mexc", k |-> 0]

NoTrade == [crypto |-> "", result |-> "NONE", quote_mexc |-> None,
            quote_coinbase |-> None, amount_usd |-> Zero]

Init ==
    /\ \E file \in StartFiles :
          LET r == read_balances_from_file(file)
          IN /\ usd_balance = r.usd
             /\ balances = r.bal
             /\ balances_file = r.file
             /\ last = [NoTrade EXCEPT !.crypto = ""] @@
                       [usd |-> r.usd, bal |-> r.bal, th |-> [s \in Tracked |-> <<>>]]
    /\ price_history \in StartHistories
    /\ mexc_history = price_history
    /\ trade_history = [s \in Tracked |-> <<>>]
    /\ feed = [e \in Exchanges |-> [s \in Symbols |-> Some(1)]]
    /\ prices_mexc = [s \in Tracked |-> None]
    /\ prices_coinbase = [s \in Tracked |-> None]
    /\ pc = "init_history"
    /\ idx = 1
    /\ cycle = 0
    /\ moves = 0
    /\ hedges = [s \in Tracked |-> 0]
    /\ init = InitStart

\* ------------------------------------------------------------------------
\* The environment: a venue's quote for a tracked symbol changes, or the
\* venue starts or stops answering, while main() waits for a reply or sleeps.
\* ------------------------------------------------------------------------

\* Every request is a blocking wait in which the venues' quotes can change.
\* A change is seen by the program at the next request of the changed quote
\* and nowhere else, so it is taken just before the step that makes that
\* request:
\*  - while initialize_price_history waits between two requests of its
\*    loop (time.sleep(1), line 89), the quote the loop requests;
\*  - before lines 190-191, which request the six tracked quotes once each,
\*    any quote: a change between two of the six requests is a change before
\*    the first for a quote not yet requested, and a change before the
\*    valuation for a quote already requested. A change during
\*    time.sleep(15) (line 275) is a change before line 190 of the next
\*    iteration;
\*  - before each pass of the valuation (line 263), which requests both
\*    quotes of every currency of one venue's dict once each, the quotes of
\*    the currencies of that dict: a change between two requests of a pass
\*    is a change before the pass for a quote not yet requested, and a
\*    change before the next pass or the next iteration otherwise.
Requested(e, s) ==
    /\ (pc = "init_history" /\ init.k > 0) => (e = init.exchange /\ s = cryptos[init.i])
    /\ pc = "value" => crypto_name(s) \in DOMAIN balances["mexc"]
    /\ pc = "value_coinbase" => crypto_name(s) \in DOMAIN balances["coinbase"]

FeedMove ==
    /\ pc \in {"init_history", "fetch", "value", "value_coinbase"}
    /\ moves < MaxMoves
    /\ \E e \in Exchanges, s \in Tracked, q \in Quotes :
          /\ Requested(e, s)
          /\ q # feed[e][s]
          /\ feed' = [feed EXCEPT ![e][s] = q]
    /\ moves' = moves + 1
    /\ UNCHANGED <<init, usd_balance, balances, price_history, trade_history,
                   balances_file, prices_mexc, prices_coinbase, pc, idx, cycle,
                   hedges, mexc_history, last>>

\* ------------------------------------------------------------------------
\* main()
\* ------------------------------------------------------------------------

\* initialize_price_history(cryptos[init.i], init.exchange) when the file
\* exists (line 82): it returns at once.
InitializeExisting ==
    /\ pc = "init_history"
    /\ init.k = 0
    /\ HistoryExists(price_history, cryptos[init.i])
    /\ init' = InitReturned(init)
    /\ pc' = IF init'.i > Len(cryptos) THEN "fetch" ELSE "init_history"
    /\ UNCHANGED <<usd_balance, balances, price_history, trade_history,
                   balances_file, feed, prices_mexc, prices_coinbase, idx,
                   cycle, moves, hedges, mexc_history, last>>

\* Lines 84-89: one of the 15 requests of the call, whose file did not exist
\* at line 82, and the wait after it; the call returns after the 15th.
InitializeRequest ==
    /\ pc = "init_history"
    /\ init.k > 0 \/ ~HistoryExists(price_history, cryptos[init.i])
    /\ price_history' = IF init.exchange = "mexc"
                        THEN fetch_crypto_price_mexc(price_history, cryptos[init.i])
                        ELSE fetch_crypto_price_coinbase(price_history, cryptos[init.i])
    /\ mexc_history' = IF init.exchange = "mexc"
                       THEN fetch_crypto_price_mexc(mexc_history, cryptos[init.i])
                       ELSE mexc_history
    /\ init' = IF init.k + 1 = INIT_SAMPLES THEN InitReturned(init)
               ELSE [init EXCEPT !.k = @ + 1]
    /\ pc' = IF init'.i > Len(cryptos) THEN "fetch" ELSE "init_history"
    /\ UNCHANGED <<usd_balance, balances, trade_history, balances_file, feed,
                   prices_mexc, prices_coinbase, idx, cycle, moves, hedges, last>>

RECURSIVE FetchAll(_, _, _)
FetchAll(hist, exchange, i) ==
    IF i > Len(cryptos) THEN hist
    ELSE FetchAll(IF exchange = "mexc"
                  THEN fetch_crypto_price_mexc(hist, cryptos[i])
                  ELSE fetch_crypto_price_coinbase(hist, cryptos[i]),
                  exchange, i + 1)

\* Lines 190-191: the two dict comprehensions, MEXC for every crypto first.
FetchPrices ==
    /\ pc = "fetch"
    /\ prices_mexc' = [s \in Tracked |-> feed["mexc"][s]]
    /\ prices_coinbase' = [s \in Tracked |-> feed["coinbase"][s]]
    /\ price_history' = FetchAll(FetchAll(price_history, "mexc", 1), "coinbase", 1)
    /\ mexc_history' = FetchAll(mexc_history, "mexc", 1)
    /\ idx' = 1
    /\ cycle' = cycle + 1
    /\ pc' = "loop"
    /\ UNCHANGED <<init, usd_balance, balances, trade_history, balances_file, feed,
                   moves, hedges, last>>

Before == [usd |-> usd_balance, bal |-> balances, th |-> trade_history]

\* Lines 193-237, one iteration whose MEXC price is a number other than 0.
TradeAndHedgeStep ==
    /\ pc = "loop"
    /\ idx <= Len(cryptos)
    /\ prices_mexc[cryptos[idx]] # None
    /\ prices_mexc[cryptos[idx]][1] # 0
    /\ LET crypto == cryptos[idx]
           atr == AtrOrZero(price_history, crypto)
           amount_usd == trade_amount_usd(atr, prices_mexc[crypto][1])
           r == TradeOne(usd_balance, balances, trade_history, crypto,
                         prices_mexc[crypto], prices_coinbase[crypto], amount_usd)
       IN /\ usd_balance' = r.usd
          /\ balances' = r.bal
          /\ trade_history' = r.th
          /\ last' = [crypto |-> crypto, result |-> r.result,
                      quote_mexc |-> prices_mexc[crypto],
                      quote_coinbase |-> prices_coinbase[crypto],
                      amount_usd |-> amount_usd] @@ Before
          /\ hedges' = [hedges EXCEPT ![crypto] =
                            IF r.result = "EXECUTED" THEN @ + 1 ELSE @]
    /\ idx' = idx + 1
    /\ UNCHANGED <<init, price_history, balances_file, feed, prices_mexc,
                   prices_coinbase, pc, cycle, moves, mexc_history>>

\* Line 203 with prices_mexc[crypto] = None: atr / None raises TypeError,
\* which nothing in trade_and_hedge or main catches.
TradeAndHedgeRaise ==
    /\ pc = "loop"
    /\ idx <= Len(cryptos)
    /\ prices_mexc[cryptos[idx]] = None
    /\ pc' = "crashed"
    /\ last' = [crypto |-> cryptos[idx], result |-> "RAISED",
                quote_mexc |-> prices_mexc[cryptos[idx]],
                quote_coinbase |-> prices_coinbase[cryptos[idx]],
                amount_usd |-> Zero] @@ Before
    /\ UNCHANGED <<init, usd_balance, balances, price_history, trade_history,
                   balances_file, feed, prices_mexc, prices_coinbase, idx,
                   cycle, moves, hedges, mexc_history>>

\* Line 239 and line 259: the loop is over, main writes the balances.
WriteBalances ==
    /\ pc = "loop"
    /\ idx > Len(cryptos)
    /\ balances_file' = write_balances_to_file(usd_balance, balances)
    /\ pc' = "value"
    /\ UNCHANGED <<init, usd_balance, balances, price_history, trade_history, feed,
                   prices_mexc, prices_coinbase, idx, cycle, moves, hedges,
                   mexc_history, last>>

RECURSIVE ValueFetches(_, _)
ValueFetches(hist, names) ==
    IF names = {} THEN hist
    ELSE LET n == CHOOSE x \in names : TRUE
         IN ValueFetches(
                fetch_crypto_price_coinbase(
                    fetch_crypto_price_mexc(hist, Symbol(n)), Symbol(n)),
                names \ {n})

\* The MEXC fetches of ValueFetches alone
RECURSIVE ValueFetchesMexc(_, _)
ValueFetchesMexc(hist, names) ==
    IF names = {} THEN hist
    ELSE LET n == CHOOSE x \in names : TRUE
         IN ValueFetchesMexc(fetch_crypto_price_mexc(hist, Symbol(n)), names \ {n})

\* Lines 262-272: the portfolio value, one pass of line 263 at a time. Both
\* prices of every currency of the venue's dict are fetched again, which
\* appends them to the histories; a missing price makes max() raise, which
\* the loop body catches.
PortfolioValueMexc ==
    /\ pc = "value"
    /\ price_history' = ValueFetches(price_history, DOMAIN balances["mexc"])
    /\ mexc_history' = ValueFetchesMexc(mexc_history, DOMAIN balances["mexc"])
    /\ pc' = "value_coinbase"
    /\ UNCHANGED <<init, usd_balance, balances, trade_history, balances_file, feed,
                   prices_mexc, prices_coinbase, idx, cycle, moves, hedges, last>>

PortfolioValueCoinbase ==
    /\ pc = "value_coinbase"
    /\ price_history' = ValueFetches(price_history, DOMAIN balances["coinbase"])
    /\ mexc_history' = ValueFetchesMexc(mexc_history, DOMAIN balances["coinbase"])
    /\ pc' = "sleep"
    /\ UNCHANGED <<init, usd_balance, balances, trade_history, balances_file, feed,
                   prices_mexc, prices_coinbase, idx, cycle, moves, hedges, last>>

\* Line 275, then the next iteration of `while True`.
Sleep ==
    /\ pc = "sleep"
    /\ cycle < MaxCycles
    /\ pc' = "fetch"
    /\ UNCHANGED <<init, usd_balance, balances, price_history, trade_history,
                   balances_file, feed, prices_mexc, prices_coinbase, idx,
                   cycle, moves, hedges, mexc_history, last>>

Next ==
    \/ FeedMove
    \/ InitializeExisting
    \/ InitializeRequest
    \/ FetchPrices
    \/ TradeAndHedgeStep
    \/ TradeAndHedgeRaise
    \/ WriteBalances
    \/ PortfolioValueMexc
    \/ PortfolioValueCoinbase
    \/ Sleep

Spec == Init /\ [][Next]_vars

\* ------------------------------------------------------------------------
\* The program when a venue answers with a price of 0: float("0") parses,
\* so the fetch functions save it and return 0.0.
\* ------------------------------------------------------------------------

FeedZero ==
    /\ pc \in {"init_history", "fetch", "value", "value_coinbase"}
    /\ moves < MaxMoves
    /\ \E e \in Exchanges, s \in Tracked :
          /\ Requested(e, s)
          /\ feed[e][s] # Some(0)
          /\ feed' = [feed EXCEPT ![e][s] = Some(0)]
    /\ moves' = moves + 1
    /\ UNCHANGED <<init, usd_balance, balances, price_history, trade_history,
                   balances_file, prices_mexc, prices_coinbase, pc, idx, cycle,
                   hedges, mexc_history, last>>

\* What a numpy.float64 divided by 0.0 gives at line 203 (a RuntimeWarning,
\* no exception): inf, written as the fraction 1/0.
Inf == <<1, 0>>

\* Line 203 with a MEXC price of 0.0 after calculate_atr raised: atr is the
\* int 0 and 0 / 0.0 raises ZeroDivisionError, which nothing catches.
TradeAndHedgeZeroDivision ==
    /\ pc = "loop"
    /\ idx <= Len(cryptos)
    /\ prices_mexc[cryptos[idx]] = Some(0)
    /\ calculate_atr(price_history, cryptos[idx], ATR_PERIOD) = None
    /\ pc' = "crashed"
    /\ last' = [crypto |-> cryptos[idx], result |-> "RAISED",
                quote_mexc |-> prices_mexc[cryptos[idx]],
                quote_coinbase |-> prices_coinbase[cryptos[idx]],
                amount_usd |-> Zero] @@ Before
    /\ UNCHANGED <<init, usd_balance, balances, price_history, trade_history,
                   balances_file, feed, prices_mexc, prices_coinbase, idx,
                   cycle, moves, hedges, mexc_history>>

\* Lines 203-209 with a MEXC price of 0.0 and an ATR from calculate_atr (a
\* numpy.float64): atr / 0.0 is inf for a positive ATR and nan for 0.0, max()
\* keeps inf and drops nan, line 206 is false and line 209 finds 0.0 falsy.
TradeAndHedgeZeroSkip ==
    /\ pc = "loop"
    /\ idx <= Len(cryptos)
    /\ prices_mexc[cryptos[idx]] = Some(0)
    /\ calculate_atr(price_history, cryptos[idx], ATR_PERIOD) # None
    /\ last' = [crypto |-> cryptos[idx], result |-> "UNAVAILABLE",
                quote_mexc |-> prices_mexc[cryptos[idx]],
                quote_coinbase |-> prices_coinbase[cryptos[idx]],
                amount_usd |-> IF AtrOrZero(price_history, cryptos[idx]) = Zero
                               THEN R(MIN_TRADE_AMOUNT) ELSE Inf] @@ Before
    /\ idx' = idx + 1
    /\ UNCHANGED <<init, usd_balance, balances, price_history, trade_history,
                   balances_file, feed, prices_mexc, prices_coinbase, pc,
                   cycle, moves, hedges, mexc_history>>

NextZeroQuote ==
    \/ FeedZero
    \/ InitializeExisting
    \/ InitializeRequest
    \/ FetchPrices
    \/ TradeAndHedgeStep
    \/ TradeAndHedgeZeroDivision
    \/ TradeAndHedgeZeroSkip
    \/ WriteBalances
    \/ PortfolioValueMexc
    \/ PortfolioValueCoinbase
    \/ Sleep

SpecZeroQuote == Init /\ [][NextZeroQuote]_vars

\* ------------------------------------------------------------------------
\* The loop body from line 206 on as a function of its inputs: the ledger,
\* the two prices and the trade amount of line 204.
\* ------------------------------------------------------------------------

HedgeCash == {0, 999, 1000, 2000}

HedgePrices == {100, 110}

HedgeAmounts == {5, 1000}

HedgeHoldings == { [e \in Exchanges |-> << >>],
                   [e \in Exchanges |-> [c \in {"XTZ", "DOT"} |-> R(3)]] }

InitHedge ==
    /\ \E um \in HedgeCash, uc \in HedgeCash :
          usd_balance = [e \in Exchanges |-> IF e = "mexc" THEN R(um) ELSE R(uc)]
    /\ balances \in HedgeHoldings
    /\ trade_history = [s \in Tracked |-> <<>>]
    /\ \E qm \in HedgePrices, qc \in HedgePrices, a \in HedgeAmounts :
          last = [crypto |-> "XTZUSDT", result |-> "INPUT", quote_mexc |-> Some(qm),
                  quote_coinbase |-> Some(qc), amount_usd |-> R(a)] @@ Before
    /\ price_history = [s \in Symbols |-> <<>>]
    /\ mexc_history = price_history
    /\ balances_file = None
    /\ feed = [e \in Exchanges |-> [s \in Symbols |-> None]]
    /\ prices_mexc = [s \in Tracked |-> None]
    /\ prices_coinbase = [s \in Tracked |-> None]
    /\ pc = "hedge_input"
    /\ idx = 1
    /\ cycle = 0
    /\ moves = 0
    /\ hedges = [s \in Tracked |-> 0]
    /\ init = InitDone

HedgeApply ==
    /\ pc = "hedge_input"
    /\ LET r == TradeOne(usd_balance, balances, trade_history, last.crypto,
                         last.quote_mexc, last.quote_coinbase, last.amount_usd)
       IN /\ usd_balance' = r.usd
          /\ balances' = r.bal
          /\ trade_history' = r.th
          /\ last' = [last EXCEPT !.result = r.result]
          /\ hedges' = [hedges EXCEPT ![last.crypto] =
                            IF r.result = "EXECUTED" THEN @ + 1 ELSE @]
    /\ pc' = "hedge_applied"
    /\ UNCHANGED <<init, price_history, balances_file, feed, prices_mexc,
                   prices_coinbase, idx, cycle, moves, mexc_history>>

NextHedge == HedgeApply

SpecHedge == InitHedge /\ [][NextHedge]_vars

\* ------------------------------------------------------------------------
\* Lines 203-204 as a function of their inputs: the ATR and the MEXC price.
\* ------------------------------------------------------------------------

\* ATR inputs: 0, whole price changes, and averages over 14 and 1000.
SizingAtrs == {Norm(n, d) : n \in {0, 1, 2, 3, 7}, d \in {1, 14, 1000}}

SizingPrices == {1, 2, 100, 110, 1000}

InitSizing ==
    /\ usd_balance \in {[e \in Exchanges |-> R(c)] : c \in {5, 2000}}
    /\ balances = [e \in Exchanges |-> << >>]
    /\ trade_history = [s \in Tracked |-> <<>>]
    /\ \E a \in SizingAtrs, p \in SizingPrices :
          last = [crypto |-> "XTZUSDT", result |-> "INPUT", atr |-> a,
                  quote_mexc |-> Some(p), quote_coinbase |-> None,
                  amount_usd |-> Zero] @@ Before
    /\ price_history = [s \in Symbols |-> <<>>]
    /\ mexc_history = price_history
    /\ balances_file = None
    /\ feed = [e \in Exchanges |-> [s \in Symbols |-> None]]
    /\ prices_mexc = [s \in Tracked |-> None]
    /\ prices_coinbase = [s \in Tracked |-> None]
    /\ pc = "sizing_input"
    /\ idx = 1
    /\ cycle = 0
    /\ moves = 0
    /\ hedges = [s \in Tracked |-> 0]
    /\ init = InitDone

\* trade_size_factor and trade_amount_usd are locals: nothing else is assigned.
SizeApply ==
    /\ pc = "sizing_input"
    /\ last' = [last EXCEPT !.amount_usd = trade_amount_usd(last.atr, last.quote_mexc[1]),
                            !.result = "SIZED"]
    /\ pc' = "sized"
    /\ UNCHANGED <<init, usd_balance, balances, price_history, trade_history,
                   balances_file, feed, prices_mexc, prices_coinbase, idx,
                   cycle, moves, hedges, mexc_history>>

NextSizing == SizeApply

SpecSizing == InitSizing /\ [][NextSizing]_vars

\* ------------------------------------------------------------------------
\* calculate_atr as a function of the history file and of the period.
\* ------------------------------------------------------------------------

AtrPrices == {1, 2, 3}

AtrPeriods == {1, 2, 3}

\* The files: no file (no line), or up to MaxHistory lines.
AtrHistories == UNION {[1..n -> AtrPrices] : n \in 0..MaxHistory}

InitAtr ==
    /\ \E h \in AtrHistories, period \in AtrPeriods :
          /\ price_history = [s \in Symbols |-> IF s = "XTZUSDT" THEN h ELSE <<>>]
          /\ last = [crypto |-> "XTZUSDT", result |-> "INPUT", period |-> period,
                     history |-> h, returned |-> None]
    /\ mexc_history = price_history
    /\ usd_balance = [e \in Exchanges |-> R(DEFAULT_USD)]
    /\ balances = [e \in Exchanges |-> << >>]
    /\ trade_history = [s \in Tracked |-> <<>>]
    /\ balances_file = None
    /\ feed = [e \in Exchanges |-> [s \in Symbols |-> None]]
    /\ prices_mexc = [s \in Tracked |-> None]
    /\ prices_coinbase = [s \in Tracked |-> None]
    /\ pc = "atr_input"
    /\ idx = 1
    /\ cycle = 0
    /\ moves = 0
    /\ hedges = [s \in Tracked |-> 0]
    /\ init = InitDone

\* calculate_atr reads the file and returns or raises.
AtrApply ==
    /\ pc = "atr_input"
    /\ last' = [last EXCEPT !.returned = calculate_atr(price_history, last.crypto, last.period),
                            !.result = "ATR"]
    /\ pc' = "atr_returned"
    /\ UNCHANGED <<init, usd_balance, balances, price_history, trade_history,
                   balances_file, feed, prices_mexc, prices_coinbase, idx,
                   cycle, moves, hedges, mexc_history>>

NextAtr == AtrApply

SpecAtr == InitAtr /\ [][NextAtr]_vars

\* ------------------------------------------------------------------------
\* Vocabulary of the properties. `last` holds the inputs of the loop
\* iteration evaluated last (the crypto, the two prices, the trade amount
\* and the ledger and trade history before it); the ledger and the trade
\* histories change in no other step, so the current ones are its outputs.
\* ------------------------------------------------------------------------

Evaluated == last.result \notin {"NONE", "INPUT"}

LastExecuted == last.result = "EXECUTED"

LastName == crypto_name(last.crypto)

Other(e) == IF e = "mexc" THEN "coinbase" ELSE "mexc"

LastQuote(e) == IF e = "mexc" THEN last.quote_mexc ELSE last.quote_coinbase

BothQuoted == last.quote_mexc # None /\ last.quote_coinbase # None

LedgerUnchanged == usd_balance = last.usd /\ balances = last.bal

NoNewRecord == trade_history = last.th

\* The trade records the last iteration appended for its crypto
NewRecords ==
    SubSeq(trade_history[last.crypto], Len(last.th[last.crypto]) + 1,
           Len(trade_history[last.crypto]))

\* The venue whose holding of the crypto the last iteration raised
Bought(e) == RLt(Get(last.bal[e], LastName), Get(balances[e], LastName))

\* The cheaper venue of the last iteration (Coinbase when the prices tie,
\* the venue line 226 checks then)
Cheaper == IF last.quote_mexc[1] < last.quote_coinbase[1] THEN "mexc" ELSE "coinbase"

\* ------------------------------------------------------------------------
\* C1
\* ------------------------------------------------------------------------

\* C1: in every reachable state every venue's USD cash is >= 0 and every
\* (venue, currency) holding is >= 0.
C1_NonNegativeLedger ==
    \A e \in Exchanges :
        /\ RGe(usd_balance[e], Zero)
        /\ \A k \in DOMAIN balances[e] : RGe(balances[e][k], Zero)

\* A hedge whose funding venue held exactly the trade amount: it is left
\* with the fee only.
C1_Witness ==
    /\ LastExecuted
    /\ \E e \in Exchanges :
          /\ Bought(e)
          /\ last.usd[e] = last.amount_usd
          /\ usd_balance[e] = RMul(last.amount_usd, TAKER_FEE)

\* ------------------------------------------------------------------------
\* C2, C3
\* ------------------------------------------------------------------------

\* C2: when the price of either venue is unavailable for a crypto, that
\* crypto is skipped with no ledger change and no trade record, and the loop
\* goes on to the other cryptos of the cycle.
C2_UnavailableIsSkipped ==
    (Evaluated /\ ~BothQuoted) =>
        /\ last.result = "UNAVAILABLE"
        /\ LedgerUnchanged
        /\ NoNewRecord
        /\ pc # "crashed"

\* C3: no expected operational failure (a price unavailable, too short a
\* history, insufficient funds) terminates the driver.
C3_DriverKeepsRunning ==
    Evaluated => pc # "crashed"

\* ------------------------------------------------------------------------
\* C4
\* ------------------------------------------------------------------------

\* C4: a hedge is executed only when the venues disagree on the price: it
\* buys on the strictly cheaper venue and sells on the strictly dearer one,
\* and equal prices change neither the ledger nor the trade records.
C4_HedgeOnlyOnPriceDifference ==
    (Evaluated /\ BothQuoted) =>
        /\ \A e \in Exchanges :
              Bought(e) => LastQuote(e)[1] < LastQuote(Other(e))[1]
        /\ last.quote_mexc = last.quote_coinbase => LedgerUnchanged /\ NoNewRecord

\* ------------------------------------------------------------------------
\* C5
\* ------------------------------------------------------------------------

\* C5: when the cash of the cheaper (funding) venue is strictly less than the
\* trade amount at the time the crypto is evaluated, no cash, no holding and
\* no trade record changes.
C5_SkipOnShortfall ==
    (Evaluated /\ BothQuoted /\ RLt(last.usd[Cheaper], last.amount_usd)) =>
        LedgerUnchanged /\ NoNewRecord

\* The funding venue is short of the trade amount while the other venue
\* could have paid it.
C5_Witness ==
    /\ Evaluated
    /\ BothQuoted
    /\ last.quote_mexc # last.quote_coinbase
    /\ RLt(last.usd[Cheaper], last.amount_usd)
    /\ RGe(last.usd[Other(Cheaper)], last.amount_usd)
    /\ last.result = "SHORTFALL"

\* ------------------------------------------------------------------------
\* C6
\* ------------------------------------------------------------------------

\* C6: every executed hedge, in either direction, debits the cash of the
\* funding (buying) venue by exactly the trade amount less the fee
\* trade amount * TAKER_FEE, so that the fee is charged once and on that leg,
\* and credits the counter venue crypto amount * counter price with no fee.
C6_FeeOnceOnFundingLeg ==
    LastExecuted =>
        \E f \in Exchanges :
            LET n == last.amount_usd
                amount == RDiv(n, R(LastQuote(f)[1]))
            IN /\ Bought(f)
               /\ ~Bought(Other(f))
               /\ RSub(last.usd[f], usd_balance[f]) = RSub(n, RMul(n, TAKER_FEE))
               /\ RSub(usd_balance[Other(f)], last.usd[Other(f)])
                      = RMul(amount, R(LastQuote(Other(f))[1]))

\* A hedge funded by MEXC whose amount was sized by the ATR.
C6_Witness ==
    /\ LastExecuted
    /\ Bought("mexc")
    /\ RLt(R(MIN_TRADE_AMOUNT), last.amount_usd)

\* ------------------------------------------------------------------------
\* C7
\* ------------------------------------------------------------------------

ScenarioA ==
    /\ pc = "hedge_applied"
    /\ last.quote_mexc = Some(100)
    /\ last.quote_coinbase = Some(110)
    /\ last.amount_usd = R(1000)
    /\ RGe(last.usd["mexc"], R(1000))

\* C7: an executed hedge raises the funding venue's holding of the crypto by
\* crypto amount = trade amount / funding price, lowers the funding venue's
\* cash by trade amount - trade amount * TAKER_FEE and raises the counter
\* venue's cash by crypto amount * counter price; for prices 100 and 110 and
\* a trade amount of 1000 these are +10, -999 and +1100.
C7_HedgeDeltas ==
    /\ LastExecuted =>
          \E f \in Exchanges :
              LET n == last.amount_usd
                  amount == RDiv(n, R(LastQuote(f)[1]))
              IN /\ Bought(f)
                 /\ Get(balances[f], LastName)
                        = RAdd(Get(last.bal[f], LastName), amount)
                 /\ usd_balance[f] = RSub(last.usd[f], RSub(n, RMul(n, TAKER_FEE)))
                 /\ usd_balance[Other(f)]
                        = RAdd(last.usd[Other(f)], RMul(amount, R(LastQuote(Other(f))[1])))
    /\ ScenarioA =>
          /\ LastExecuted
          /\ RSub(Get(balances["mexc"], LastName), Get(last.bal["mexc"], LastName)) = R(10)
          /\ RSub(usd_balance["mexc"], last.usd["mexc"]) = R(-999)
          /\ RSub(usd_balance["coinbase"], last.usd["coinbase"]) = R(1100)

\* Scenario A has been executed on a ledger that already held the crypto.
C7_Witness ==
    /\ ScenarioA
    /\ LastExecuted
    /\ Get(last.bal["mexc"], LastName) = R(3)

\* ------------------------------------------------------------------------
\* C8
\* ------------------------------------------------------------------------

\* C8: an executed hedge leaves every holding of the counter venue and the
\* funding venue's holdings of every other currency unchanged.
C8_OnlyFundingHoldingChanges ==
    LastExecuted =>
        \E f \in Exchanges :
            /\ Bought(f)
            /\ balances[Other(f)] = last.bal[Other(f)]
            /\ DOMAIN balances[f] = DOMAIN last.bal[f] \cup {LastName}
            /\ \A k \in DOMAIN balances[f] \ {LastName} :
                  balances[f][k] = last.bal[f][k]

\* A hedge sold on a venue that holds the crypto, bought on a venue that
\* holds other currencies.
C8_Witness ==
    /\ LastExecuted
    /\ Bought("coinbase")
    /\ RLt(Zero, Get(balances["mexc"], LastName))
    /\ \E k \in DOMAIN balances["coinbase"] \ {LastName} :
          RLt(Zero, balances["coinbase"][k])

\* ------------------------------------------------------------------------
\* C9
\* ------------------------------------------------------------------------

RECURSIVE SumAmounts(_)
SumAmounts(records) ==
    IF records = <<>> THEN Zero
    ELSE RAdd(Head(records).amount, SumAmounts(Tail(records)))

\* C9: trade records are only appended; an executed hedge appends exactly two
\* for its crypto, a buy on the funding venue of +crypto amount at the
\* funding price and then a sell on the counter venue of -crypto amount at
\* the counter price; a skipped crypto appends none; so every trade history
\* holds twice as many records as hedges were executed and its signed
\* amounts sum to zero.
C9_TwoRecordsPerHedge ==
    /\ Evaluated =>
          /\ \A s \in Tracked \ {last.crypto} : trade_history[s] = last.th[s]
          /\ SubSeq(trade_history[last.crypto], 1, Len(last.th[last.crypto]))
                 = last.th[last.crypto]
          /\ IF LastExecuted
             THEN \E f \in Exchanges :
                      LET amount == RDiv(last.amount_usd, R(LastQuote(f)[1]))
                          new == NewRecords
                      IN /\ Bought(f)
                         /\ Len(new) = 2
                         /\ new[1].trade_type = "buy"
                         /\ new[1].exchange = f
                         /\ new[1].amount = amount
                         /\ new[1].price = LastQuote(f)[1]
                         /\ new[2].trade_type = "sell"
                         /\ new[2].exchange = Other(f)
                         /\ new[2].amount = RNeg(amount)
                         /\ new[2].price = LastQuote(Other(f))[1]
             ELSE NoNewRecord
    /\ \A s \in Tracked :
          /\ Len(trade_history[s]) = 2 * hedges[s]
          /\ SumAmounts(trade_history[s]) = Zero

\* The second hedge of a crypto has been executed while another crypto has
\* none.
C9_Witness ==
    /\ LastExecuted
    /\ hedges[last.crypto] = 2
    /\ \E s \in Tracked : hedges[s] = 0

\* ------------------------------------------------------------------------
\* C10
\* ------------------------------------------------------------------------

RAbs(x) == <<Abs(x[1]), x[2]>>

\* C10: for every executed leg the notional of its trade record equals, in
\* magnitude, the cash change of that venue: the buy record's notional is the
\* funding venue's cash decrease and the sell record's notional is the
\* counter venue's cash increase.
C10_RecordsReconcile ==
    LastExecuted =>
        \E f \in Exchanges :
            /\ Bought(f)
            /\ Len(NewRecords) = 2
            /\ RAbs(NewRecords[1].notional) = RSub(last.usd[f], usd_balance[f])
            /\ RAbs(NewRecords[2].notional)
                   = RSub(usd_balance[Other(f)], last.usd[Other(f)])

\* ------------------------------------------------------------------------
\* C11
\* ------------------------------------------------------------------------

\* The loop of trade_and_hedge has just evaluated last.crypto, to the end of
\* its iteration or to the exception that ended it: the price histories are
\* still the ones its ATR was computed on.
JustEvaluated ==
    \/ pc = "loop" /\ idx > 1 /\ Evaluated /\ last.crypto = cryptos[idx - 1]
    \/ pc = "crashed" /\ Evaluated /\ last.crypto = cryptos[idx]

\* The last iteration reached line 204 (it computed a trade amount).
Sized == Evaluated /\ last.result # "RAISED"

\* C11: the volatility that sizes a crypto's trade is computed on the prices
\* MEXC quoted for it only, so the trade amount is the one those prices give
\* whatever Coinbase quoted: runs that agree on the MEXC prices agree on the
\* volatility and on the trade amount.
C11_SizedOnMexcHistoryOnly ==
    (JustEvaluated /\ Sized) =>
        /\ AtrOrZero(price_history, last.crypto) = AtrOrZero(mexc_history, last.crypto)
        /\ last.amount_usd
               = trade_amount_usd(AtrOrZero(mexc_history, last.crypto), last.quote_mexc[1])

\* ------------------------------------------------------------------------
\* C12
\* ------------------------------------------------------------------------

\* C12: when the history of a crypto holds fewer than ATR_PERIOD + 1 samples
\* (or does not exist), calculate_atr fails, the loop goes on with a
\* volatility of 0, so the trade amount is MIN_TRADE_AMOUNT, and the crypto
\* still executes its hedge when both prices are there and the funding venue
\* holds that amount; the cycle is not aborted.
C12_ShortHistorySizesAtMinimum ==
    (JustEvaluated /\ Len(price_history[last.crypto]) < ATR_PERIOD + 1) =>
        /\ calculate_atr(price_history, last.crypto, ATR_PERIOD) = None
        /\ last.result \in {"EXECUTED", "SHORTFALL", "UNAVAILABLE"}
        /\ last.amount_usd = R(MIN_TRADE_AMOUNT)
        /\ (BothQuoted /\ RGe(last.usd[Cheaper], R(MIN_TRADE_AMOUNT))) => LastExecuted
        /\ pc = "loop"

\* ------------------------------------------------------------------------
\* C13
\* ------------------------------------------------------------------------

\* C13: the funds check is inclusive. When both prices are there and differ
\* and the cheaper (funding) venue holds exactly the trade amount, the hedge
\* executes: both legs are applied, two records are written, and the funding
\* venue is left with the fee, amount * TAKER_FEE.
C13_ExactFundsExecute ==
    (Sized /\ BothQuoted /\ last.quote_mexc # last.quote_coinbase
           /\ last.usd[Cheaper] = last.amount_usd) =>
        /\ LastExecuted
        /\ Bought(Cheaper)
        /\ RLt(last.usd[Other(Cheaper)], usd_balance[Other(Cheaper)])
        /\ Len(NewRecords) = 2
        /\ usd_balance[Cheaper] = RMul(last.amount_usd, TAKER_FEE)

\* The cheaper venue held exactly the trade amount and the two records of
\* the hedge are in the trade history.
C13_Witness ==
    /\ Sized
    /\ BothQuoted
    /\ last.quote_mexc # last.quote_coinbase
    /\ last.usd[Cheaper] = last.amount_usd
    /\ Len(NewRecords) = 2
    /\ RLt(Zero, usd_balance[Cheaper])

\* ------------------------------------------------------------------------
\* C14
\* ------------------------------------------------------------------------

\* C14: for every ATR >= 0 and every MEXC price > 0 the trade amount is
\* TRADE_SIZE_FACTOR * max(MIN_TRADE_AMOUNT / TRADE_SIZE_FACTOR, ATR / price):
\* it is MIN_TRADE_AMOUNT when ATR / price does not exceed the floor, in
\* particular for an ATR of 0, and TRADE_SIZE_FACTOR * ATR / price otherwise,
\* so it is never below MIN_TRADE_AMOUNT (the test of line 206 is never
\* true); computing it changes neither the ledger, nor the trade records,
\* nor the price histories.
C14_AmountFlooredAtMinimum ==
    last.result = "SIZED" =>
        LET price == last.quote_mexc[1]
            floor == RDiv(R(MIN_TRADE_AMOUNT), R(TRADE_SIZE_FACTOR))
            ratio == RDiv(last.atr, R(price))
        IN /\ last.amount_usd = IF RLt(floor, ratio)
                                THEN RDiv(RMul(R(TRADE_SIZE_FACTOR), last.atr), R(price))
                                ELSE R(MIN_TRADE_AMOUNT)
           /\ RGe(last.amount_usd, R(MIN_TRADE_AMOUNT))
           /\ last.atr = Zero => last.amount_usd = R(MIN_TRADE_AMOUNT)
           /\ LedgerUnchanged
           /\ NoNewRecord
           /\ \A s \in Symbols : price_history[s] = <<>>

\* A positive ATR so small against the price that the floor decides the
\* amount.
C14_Witness ==
    /\ last.result = "SIZED"
    /\ RLt(Zero, last.atr)
    /\ last.amount_usd = R(MIN_TRADE_AMOUNT)

\* ------------------------------------------------------------------------
\* C15
\* ------------------------------------------------------------------------

\* The absolute changes between consecutive samples of h, oldest first
AbsChanges(h) == [i \in 1..(Len(h) - 1) |-> Abs(h[i + 1] - h[i])]

RECURSIVE SumSeq(_)
SumSeq(q) == IF q = <<>> THEN 0 ELSE Head(q) + SumSeq(Tail(q))

\* The last n elements of q
LastN(q, n) == SubSeq(q, Len(q) - n + 1, Len(q))

\* C15: on a history of at least period + 1 samples calculate_atr returns the
\* plain average of the absolute changes over the most recent `period`
\* pairs of consecutive samples, so that histories with the same last
\* period + 1 samples give the same value; it fails exactly when the history
\* has fewer than period + 1 samples; and it leaves the history as it was.
C15_AtrIsRecentAverage ==
    last.result = "ATR" =>
        LET h == price_history[last.crypto]
            period == last.period
        IN /\ (last.returned = None) <=> (Len(h) < period + 1)
           /\ Len(h) >= period + 1 =>
                 /\ last.returned
                        = Some(Norm(SumSeq(LastN(AbsChanges(h), period)), period))
                 /\ \A g \in AtrHistories :
                        (Len(g) >= period + 1
                            /\ LastN(g, period + 1) = LastN(h, period + 1)) =>
                        calculate_atr([price_history EXCEPT ![last.crypto] = g],
                                      last.crypto, period) = last.returned
           /\ h = last.history

\* The oldest change of the file is not 0, the recent ones are, and the ATR
\* is 0.
C15_Witness ==
    /\ last.result = "ATR"
    /\ Len(last.history) > last.period + 1
    /\ last.history[1] # last.history[2]
    /\ last.returned = Some(Zero)

\* ------------------------------------------------------------------------
\* C16
\* ------------------------------------------------------------------------

\* C16: a price that is not strictly positive is rejected and never
\* appended, so every sample of every price history is > 0; and a crypto for
\* which a venue reports such a price is skipped (no ledger change, no
\* trade record) while the cycle goes on.
C16_NonPositivePriceRejected ==
    /\ \A s \in Symbols : \A i \in 1..Len(price_history[s]) : price_history[s][i] > 0
    /\ (Evaluated /\ \E e \in Exchanges : LastQuote(e) = Some(0)) =>
          /\ last.result = "UNAVAILABLE"
          /\ LedgerUnchanged
          /\ NoNewRecord
          /\ pc # "crashed"

\* ------------------------------------------------------------------------
\* C17
\* ------------------------------------------------------------------------

\* The loop of the current cycle is over and its ledger has been written:
\* main is at the valuation, waits, or is about to start the next cycle.
CycleCompleted == pc \in {"value", "value_coinbase", "sleep"} \/ (pc = "fetch" /\ cycle > 0)

\* C17: cycles run one after another, and every cycle that completes is
\* followed by a save of the ledger before the wait and before the next
\* cycle starts: from the end of a cycle's loop until the next cycle
\* begins, balances.txt is the snapshot of the in-memory ledger that cycle
\* produced, and reading it back gives that ledger.
C17_SavedAfterEveryCycle ==
    CycleCompleted =>
        /\ cycle >= 1
        /\ idx = Len(cryptos) + 1
        /\ balances_file # None
        /\ balances_file[1] = BalanceLines(usd_balance, balances)
        /\ read_balances_from_file(balances_file).usd = usd_balance
        /\ read_balances_from_file(balances_file).bal = balances

\* The second cycle has executed a hedge as its last iteration and main is
\* waiting.
C17_Witness ==
    /\ pc = "sleep"
    /\ cycle = 2
    /\ LastExecuted
    /\ last.crypto = cryptos[Len(cryptos)]
    /\ balances_file = Some(BalanceLines(usd_balance, balances))

\* ------------------------------------------------------------------------
\* C18
\* ------------------------------------------------------------------------

\* C18: within a cycle the cryptos are evaluated one after another, each
\* once and in the order of `cryptos`, on the prices fetched at the start of
\* the cycle and against the ledger as the iterations before it left it: a
\* step of the loop evaluates cryptos[idx] and moves to the next, fetches
\* nothing, and changes the ledger or the trade records only if the cash
\* the funding venue holds at that moment covers the trade amount, so a
\* venue that funded an earlier hedge of the cycle and now holds less than
\* the amount funds no later one.
C18_SequentialOnLiveLedger ==
    [][ (pc = "loop" /\ pc' = "loop") =>
            LET crypto == cryptos[idx]
                funding == IF prices_mexc[crypto][1] < prices_coinbase[crypto][1]
                           THEN "mexc" ELSE "coinbase"
            IN /\ idx <= Len(cryptos)
               /\ idx' = idx + 1
               /\ last'.crypto = crypto
               /\ last'.quote_mexc = prices_mexc[crypto]
               /\ last'.quote_coinbase = prices_coinbase[crypto]
               /\ UNCHANGED <<init, prices_mexc, prices_coinbase, price_history>>
               /\ (<<usd_balance, balances, trade_history>>'
                       # <<usd_balance, balances, trade_history>>) =>
                      /\ prices_mexc[crypto] # None
                      /\ prices_coinbase[crypto] # None
                      /\ RGe(usd_balance[funding], last'.amount_usd)
                      /\ hedges'[crypto] = hedges[crypto] + 1
      ]_vars

\* A venue that could pay the trade amount when the cycle started (the
\* ledger balances.txt holds) has funded a hedge of this cycle and is short
\* of the amount for the crypto evaluated now.
C18_Witness ==
    /\ JustEvaluated
    /\ last.result = "SHORTFALL"
    /\ balances_file # None
    /\ RGe(LineAmount(balances_file[1], Cheaper, "USD"), last.amount_usd)
    /\ RLt(last.usd[Cheaper], last.amount_usd)

\* ------------------------------------------------------------------------
\* C19
\* ------------------------------------------------------------------------

\* The USD cash of the two venues together
TotalCash(usd) == RAdd(usd["mexc"], usd["coinbase"])

\* C19: the combined USD cash of the two venues never decreases. An executed
\* hedge changes it by crypto amount * counter price - (amount - fee), which
\* is at least the fee, amount * TAKER_FEE, because the counter price is not
\* below the funding price; an iteration that executes nothing leaves it as
\* it was.
C19_TotalCashNeverDecreases ==
    /\ RGe(TotalCash(usd_balance), TotalCash(last.usd))
    /\ Sized =>
          IF LastExecuted
          THEN \E f \in Exchanges :
                  LET bought == RDiv(last.amount_usd, R(LastQuote(f)[1]))
                      credit == RMul(bought, R(LastQuote(Other(f))[1]))
                      debit == RSub(last.amount_usd, RMul(last.amount_usd, TAKER_FEE))
                      change == RSub(TotalCash(usd_balance), TotalCash(last.usd))
                  IN /\ Bought(f)
                     /\ LastQuote(Other(f))[1] >= LastQuote(f)[1]
                     /\ change = RSub(credit, debit)
                     /\ RGe(change, RMul(last.amount_usd, TAKER_FEE))
          ELSE TotalCash(usd_balance) = TotalCash(last.usd)

\* A hedge between two different prices has raised the combined cash by more
\* than its fee.
C19_Witness ==
    /\ LastExecuted
    /\ last.quote_mexc # last.quote_coinbase
    /\ RLt(RAdd(TotalCash(last.usd), RMul(last.amount_usd, TAKER_FEE)),
           TotalCash(usd_balance))

\* ------------------------------------------------------------------------
\* C20
\* ------------------------------------------------------------------------

\* C20: no step ever reduces a holding: every (venue, currency) holding
\* stays or grows, so what a venue bought is never sold from it. Cash goes
\* down only on the venue that funds a hedge, which is never the dearer one
\* and held at least the trade amount; and while the cheaper venue holds
\* less than the trade amount, the iteration changes neither venue's cash.
C20_HoldingsNeverReduced ==
    [][ /\ \A e \in Exchanges : \A k \in DOMAIN balances[e] :
              /\ k \in DOMAIN balances'[e]
              /\ RGe(balances'[e][k], balances[e][k])
        /\ \A e \in Exchanges :
              RLt(usd_balance'[e], usd_balance[e]) =>
                  /\ pc = "loop"
                  /\ last'.result = "EXECUTED"
                  /\ RLt(Get(balances[e], crypto_name(last'.crypto)),
                         Get(balances'[e], crypto_name(last'.crypto)))
                  /\ balances'[Other(e)] = balances[Other(e)]
                  /\ last'.quote_mexc # None /\ last'.quote_coinbase # None
                  /\ (IF e = "mexc" THEN last'.quote_mexc[1] ELSE last'.quote_coinbase[1])
                         <= (IF e = "mexc" THEN last'.quote_coinbase[1] ELSE last'.quote_mexc[1])
                  /\ RGe(usd_balance[e], last'.amount_usd)
        /\ (pc = "loop" /\ pc' = "loop"
                /\ prices_mexc[cryptos[idx]] # None /\ prices_coinbase[cryptos[idx]] # None) =>
              LET cheaper == IF prices_mexc[cryptos[idx]][1] < prices_coinbase[cryptos[idx]][1]
                             THEN "mexc" ELSE "coinbase"
              IN RLt(usd_balance[cheaper], last'.amount_usd) =>
                     UNCHANGED <<init, usd_balance, balances>>
      ]_vars

\* The strictly cheaper venue funded the earlier hedge of the crypto, which
\* left it with less than the trade amount: it funds nothing now, and its
\* holding is still what it bought.
C20_Witness ==
    /\ Sized
    /\ BothQuoted
    /\ last.quote_mexc # last.quote_coinbase
    /\ last.result = "SHORTFALL"
    /\ Len(last.th[last.crypto]) = 2
    /\ last.th[last.crypto][1].trade_type = "buy"
    /\ last.th[last.crypto][1].exchange = Cheaper
    /\ Get(balances[Cheaper], LastName) = last.th[last.crypto][1].amount

====
